---------------------------- MODULE Spec2Model ----------------------------
(***************************************************************************)
(* Renderer lifecycle of the 3D viewer (graphics/makeRenderer.ts):         *)
(* backend selection, the WebGPU attempt with its smoke test, the WebGL2   *)
(* fallback, and the webglcontextlost / webglcontextrestored listeners     *)
(* with the persisted 'webglContextLost' flag.                             *)
(*                                                                         *)
(* One browser tab is modelled.  A session is one page load; a reload      *)
(* starts the next session and keeps only localStorage.  makeRenderer is   *)
(* an async function: every action below is one synchronous run of its     *)
(* code between two awaits, or one event listener run to completion.       *)
(***************************************************************************)
EXTENDS Integers, Sequences, FiniteSets, TLC

(* ------------------------------ bounds -------------------------------- *)

\* page loads explored (the first load plus MaxSessions - 1 reloads)
MaxSessions == 3
\* makeRenderer calls explored per page load
MaxCalls == 2

(* ------------------------------ inputs -------------------------------- *)

\* Tier strings, as the sequence of their words.  PerfFlags produces the
\* first two; makeRenderer accepts any string, so two tiers that name the
\* webgpu backend are included.
Tiers ==
  { <<"mobile", "Low">>, <<"desktop", "High">>,
    <<"desktop", "webgpu">>, <<"mobile", "webgpu">> }

\* String.prototype.includes / startsWith on the word sequence
TierIncludes(tier, word) == \E i \in 1..Len(tier) : tier[i] = word

TierStartsWith(tier, word) == Len(tier) > 0 /\ tier[1] = word

(* ----------------------------- variables ------------------------------ *)

VARIABLES
  session,          \* number of the current page load, 1..MaxSessions
  navigatorGpu,     \* navigator.gpu is present
  flag,             \* localStorage has 'webglContextLost' = 'true'
  pc,               \* position of the makeRenderer call in flight
  stalled,          \* the promise awaited at pc will never settle
  callTier,         \* tier argument of the call in flight
  calls,            \* makeRenderer calls made in this session
  renderers,        \* renderers constructed in this session, in order
  callCreated,      \* indices in renderers constructed by the current call
  smokeOk,          \* value the smoke test returned (read at awaitSmoke)
  webgpuRenderer,   \* createWebGPURenderer's return value: index, 0 = null
  attemptOutcome,   \* how the WebGPU attempt of the call in flight ended
  result,           \* RendererResult of the last resolved call
  lostHandlers,     \* 'webglcontextlost' listeners on the canvas
  restoredHandlers, \* 'webglcontextrestored' listeners on the canvas
  banners,          \* notice elements appended to document.body
  ctxLost,          \* the WebGL context of the canvas is lost
  defaultPrevented, \* preventDefault was called on the last loss event
  lossTrace,        \* statements run by the listeners of the last loss event
  restoreTrace,     \* statements run by the listeners of the last restore event
  attempts,         \* WebGPU attempts started in this session
  gpuFailed,        \* a WebGPU attempt has failed in this session
  lossEvents,       \* loss events the browser has delivered so far
  restoreEvents,    \* restore events the browser has delivered so far
  restartCause,     \* what started this session: none, restore, button
  flagAtStart       \* value of flag when this session started

vars ==
  << session, navigatorGpu, flag, pc, stalled, callTier, calls, renderers,
     callCreated, smokeOk, webgpuRenderer, attemptOutcome, result,
     lostHandlers, restoredHandlers, banners, ctxLost, defaultPrevented,
     lossTrace, restoreTrace, attempts, gpuFailed, lossEvents, restoreEvents,
     restartCause, flagAtStart >>

\* state of the page, lost at a reload
pageVars ==
  << pc, stalled, callTier, calls, renderers, callCreated, smokeOk,
     webgpuRenderer, attemptOutcome, result, lostHandlers, restoredHandlers,
     banners, ctxLost, defaultPrevented, attempts, gpuFailed >>

(* Variables of the other components.  Each component has a specification *)
(* of its own, in which the variables of the others keep their initial     *)
(* values.                                                                 *)

VARIABLES
  lookups,          \* tiers looked up in performanceTiers so far
  configs           \* the config each lookup returned

tierVars == << lookups, configs >>

VARIABLES
  sIn,              \* geometry given to simplifyGeometryForMobile
  sRatio,           \* targetRatio, in tenths
  sMobile,          \* isMobile given to shouldSimplifyMesh
  sCalled,          \* simplifyGeometryForMobile has returned
  sOut,             \* the geometry it returned
  gCalled,          \* shouldSimplifyMesh has returned
  gOut              \* the value it returned

simplifyVars == << sIn, sRatio, sMobile, sCalled, sOut, gCalled, gOut >>

VARIABLES
  sig,              \* navigator signals: user agent, touch, deviceMemory
  innerWidth,       \* window.innerWidth
  innerHeight,      \* window.innerHeight
  perf,             \* the PerfFlags singleton
  rendered,         \* values of SingleEnvironmentMesh's last render
  effDeps,          \* per effect, the isMobile dependency of its last run
  scene,            \* per environment model, its mesh
  passes,           \* per environment model, runs of its effect so far
  resizes           \* viewport resizes so far

sceneVars ==
  << sig, innerWidth, innerHeight, perf, rendered, effDeps, scene, passes,
     resizes >>

VARIABLES
  lgStore,          \* localStorage value under 'app_errors'
  lgErrorOn,        \* logger.categories.ERROR
  lgLogged,         \* errors given to logger.error since the store was empty
  lgPersisted,      \* those of them whose persistError ran to its end
  lgDrops,          \* logger.error calls that persisted nothing
  lgGot,            \* what the last getPersistedErrors call returned
  lgLast            \* the last Logger method called, and whether it threw

loggerVars ==
  << lgStore, lgErrorOn, lgLogged, lgPersisted, lgDrops, lgGot, lgLast >>

VARIABLES
  agConfig,         \* the config object given to the agent's constructor
  agPc,             \* position of MobileOptimizerAgent.run
  agIteration,      \* this.iteration
  agRounds,         \* validation rounds performed
  agValidation,     \* validationResult of the current round
  agFixResult,      \* fixResult of the current round
  agReports,        \* statuses generateReport was called with, in order
  agPending,        \* the object run is about to return
  agReturn,         \* the object run returned
  fxEvents,         \* backups, writes and change-log entries of the fixer
  fxUnbacked        \* files written in an applyFix whose backup failed

agentVars ==
  << agConfig, agPc, agIteration, agRounds, agValidation, agFixResult,
     agReports, agPending, agReturn, fxEvents, fxUnbacked >>

VARIABLES
  gvTier,           \* the tier the governor runs under
  gvStage,          \* index of the degradation stage applied so far
  gvWindow          \* rolling window of frame durations (ms), oldest first

governorVars == << gvTier, gvStage, gvWindow >>

VARIABLES
  shLight,          \* translation of light.matrixWorldInverse
  shVisible,        \* visibleObjects of the latest fitShadowFrustum call
  shCam,            \* light.shadow.camera: left, right, top, bottom, near, far
  shUpdates,        \* updateProjectionMatrix calls
  shFrames          \* fitShadowFrustum calls

shadowVars == << shLight, shVisible, shCam, shUpdates, shFrames >>

\* the components outside the rendering pipeline
otherVars == << loggerVars, agentVars, governorVars, shadowVars >>

\* what each component leaves alone
notRenderer == << tierVars, simplifyVars, sceneVars, otherVars >>

\* A geometry: its identity, position.count, whether it has an index
\* buffer, the buffer, and whether normals and bounds were recomputed on it.
NoGeometry ==
  [ id |-> 0, vertexCount |-> 0, indexed |-> FALSE, index |-> << >>,
    recomputed |-> FALSE ]

\* the values the variables of a component keep while another one runs
TierIdle ==
  /\ lookups = << >>
  /\ configs = << >>

SimplifyIdle ==
  /\ sIn = NoGeometry
  /\ sRatio = 0
  /\ sMobile = FALSE
  /\ sCalled = FALSE
  /\ sOut = NoGeometry
  /\ gCalled = FALSE
  /\ gOut = FALSE

SceneIdle ==
  /\ sig = << >>
  /\ innerWidth = 0
  /\ innerHeight = 0
  /\ perf = << >>
  /\ rendered = << >>
  /\ effDeps = << >>
  /\ scene = << >>
  /\ passes = << >>
  /\ resizes = 0

\* an item of localStorage: absent, the empty string, the JSON text of an
\* array (items are its entries), the JSON text of another value, or text
\* that is not JSON
NoItem == [kind |-> "absent", items |-> << >>]

NoCall == [op |-> "none", threw |-> FALSE]

LoggerIdle ==
  /\ lgStore = NoItem
  /\ lgErrorOn = TRUE
  /\ lgLogged = << >>
  /\ lgPersisted = << >>
  /\ lgDrops = 0
  /\ lgGot = << >>
  /\ lgLast = NoCall

NoConfig ==
  [hasMaxIterations |-> FALSE, maxIterations |-> 0, autoFix |-> TRUE,
   quickMode |-> FALSE]

NoValidation ==
  [passed |-> FALSE, issues |-> {}, total |-> 0, critical |-> 0]

NoFixResult == [applied |-> 0, failed |-> 0]

NoReturn ==
  [success |-> FALSE, reason |-> "none", iterations |-> 0,
   hasResult |-> FALSE]

AgentIdle ==
  /\ agConfig = NoConfig
  /\ agPc = "idle"
  /\ agIteration = 0
  /\ agRounds = 0
  /\ agValidation = NoValidation
  /\ agFixResult = NoFixResult
  /\ agReports = << >>
  /\ agPending = NoReturn
  /\ agReturn = NoReturn
  /\ fxEvents = {}
  /\ fxUnbacked = {}

GovernorIdle ==
  /\ gvTier = "none"
  /\ gvStage = 0
  /\ gvWindow = << >>

\* the orthographic shadow camera before any fit, in half units
InitialFrustum ==
  [left |-> -10, right |-> 10, top |-> 10, bottom |-> -10,
   near |-> 1, far |-> 1000]

ShadowIdle ==
  /\ shLight = << 0, 0, 0 >>
  /\ shVisible = {}
  /\ shCam = InitialFrustum
  /\ shUpdates = 0
  /\ shFrames = 0

OthersIdle ==
  /\ LoggerIdle
  /\ AgentIdle
  /\ GovernorIdle
  /\ ShadowIdle

NoResult == [type |-> "none", renderer |-> 0]

NoTier == << >>


(* ----------------------- event listeners (69-96) ---------------------- *)

\* The statements of the 'webglcontextlost' listener, in program order.
LostHandlerBody_LogFirst ==
  << "consoleError", "preventDefault", "setItem", "createBanner",
     "appendBanner" >>

LostHandlerBody ==
  << "preventDefault", "consoleError", "setItem", "createBanner",
     "appendBanner" >>

\* The statements of the 'webglcontextrestored' listener, in program order.
RestoredHandlerBody_NoClear ==
  << "consoleLog", "reload" >>

RestoredHandlerBody ==
  << "consoleLog", "removeItem", "reload" >>

\* The page as a listener sees and changes it.  threw: the running listener
\* has thrown; reload: location.reload() has been called.
PageState(f, b, p) ==
  [ flag |-> f, banners |-> b, prevented |-> p, reload |-> FALSE,
    threw |-> FALSE, trace |-> << >> ]

\* One statement of a listener.  localStorage.setItem throws when the
\* storage refuses the write (quota exceeded, storage disabled); an
\* exception ends the listener that raised it.
ExecStatement(stmt, st, storageThrows) ==
  LET t == [st EXCEPT !.trace = Append(@, stmt)] IN
  CASE st.threw -> st
    [] stmt = "preventDefault" -> [t EXCEPT !.prevented = TRUE]
    [] stmt = "setItem" ->
         IF storageThrows THEN [t EXCEPT !.threw = TRUE]
         ELSE [t EXCEPT !.flag = TRUE]
    [] stmt = "removeItem" -> [t EXCEPT !.flag = FALSE]
    [] stmt = "appendBanner" -> [t EXCEPT !.banners = @ + 1]
    [] stmt = "reload" -> [t EXCEPT !.reload = TRUE]
    [] OTHER -> t

RECURSIVE ExecBody(_, _, _, _)
ExecBody(body, i, st, storageThrows) ==
  IF i > Len(body) THEN st
  ELSE ExecBody(body, i + 1, ExecStatement(body[i], st, storageThrows),
                storageThrows)

\* dispatchEvent: the n listeners of the event run one after another; an
\* exception in one listener does not keep the next from running.
RECURSIVE Dispatch(_, _, _, _)
Dispatch(body, n, st, storageThrows) ==
  IF n = 0 THEN st
  ELSE Dispatch(body, n - 1,
                ExecBody(body, 1,
                         [st EXCEPT !.threw = FALSE,
                                    !.trace = Append(@, "enter")],
                         storageThrows),
                storageThrows)

(* --------------------- renderer construction -------------------------- *)

\* createWebGLRenderer's renderer: a WebGL2 renderer whose shadow map is
\* enabled off mobile tiers.
WebGLRendererOf(tier) ==
  [ kind |-> "webgl2", disposed |-> FALSE,
    shadows |-> ~TierStartsWith(tier, "mobile") ]

\* new WebGPURenderer({canvas, antialias: true, forceWebGL: false})
WebGPURendererNew ==
  [ kind |-> "webgpu", disposed |-> FALSE, shadows |-> FALSE ]

\* smokeTestWebGPU: false without a backend device, false when the test
\* render throws (caught), true otherwise.
SmokeTestWebGPU(hasBackendDevice, renderThrows) ==
  IF ~hasBackendDevice THEN FALSE
  ELSE IF renderThrows THEN FALSE
  ELSE TRUE

\* makeRenderer's first branch: the WebGL2 renderer is created at once.
TakesWebGLPath_And(hasWebGPU, tier) ==
  ~hasWebGPU /\ ~TierIncludes(tier, "webgpu")

TakesWebGLPath(hasWebGPU, tier) ==
  ~hasWebGPU \/ ~TierIncludes(tier, "webgpu")

\* createWebGPURenderer after the smoke test: [renderers, ret], ret = 0 for
\* null.  idx is the renderer under test.
AfterSmokeTest_NoDispose(rs, idx, ok) ==
  IF ~ok THEN [renderers |-> rs, ret |-> 0]
  ELSE [renderers |-> rs, ret |-> idx]

AfterSmokeTest(rs, idx, ok) ==
  IF ~ok THEN [renderers |-> [rs EXCEPT ![idx].disposed = TRUE], ret |-> 0]
  ELSE [renderers |-> rs, ret |-> idx]

Live(rs) == { i \in 1..Len(rs) : ~rs[i].disposed }

LiveWebGL(rs) == { i \in Live(rs) : rs[i].kind = "webgl2" }


(* ------------------------------- Init --------------------------------- *)

\* A freshly loaded page: nothing constructed, no listener on the canvas.
FreshPage ==
  /\ pc = "idle"
  /\ stalled = FALSE
  /\ callTier = NoTier
  /\ calls = 0
  /\ renderers = << >>
  /\ callCreated = << >>
  /\ smokeOk = FALSE
  /\ webgpuRenderer = 0
  /\ attemptOutcome = "none"
  /\ result = NoResult
  /\ lostHandlers = 0
  /\ restoredHandlers = 0
  /\ banners = 0
  /\ ctxLost = FALSE
  /\ defaultPrevented = FALSE
  /\ attempts = 0
  /\ gpuFailed = FALSE

Init ==
  /\ session = 1
  /\ navigatorGpu \in BOOLEAN
  /\ flag = FALSE
  /\ FreshPage
  /\ lossTrace = << >>
  /\ restoreTrace = << >>
  /\ lossEvents = 0
  /\ restoreEvents = 0
  /\ restartCause = "none"
  /\ flagAtStart = FALSE
  /\ TierIdle
  /\ SimplifyIdle
  /\ SceneIdle
  /\ OthersIdle

\* location.reload(): the page is loaded afresh; localStorage survives.
\* f is the flag as the old page left it.
Reloaded(cause, f) ==
  /\ session' = session + 1
  /\ flag' = f
  /\ flagAtStart' = f
  /\ restartCause' = cause
  /\ pc' = "idle"
  /\ stalled' = FALSE
  /\ callTier' = NoTier
  /\ calls' = 0
  /\ renderers' = << >>
  /\ callCreated' = << >>
  /\ smokeOk' = FALSE
  /\ webgpuRenderer' = 0
  /\ attemptOutcome' = "none"
  /\ result' = NoResult
  /\ lostHandlers' = 0
  /\ restoredHandlers' = 0
  /\ banners' = 0
  /\ ctxLost' = FALSE
  /\ defaultPrevented' = FALSE
  /\ attempts' = 0
  /\ gpuFailed' = FALSE
  /\ UNCHANGED navigatorGpu

(* --------------------------- makeRenderer ----------------------------- *)

\* makeRenderer(canvas, tier), lines 138-155: without navigator.gpu, or for
\* a tier that does not name webgpu, createWebGLRenderer runs (constructing
\* the renderer and adding both listeners) and the call resolves; otherwise
\* createWebGPURenderer starts and awaits the dynamic import.
MakeRenderer(tier) ==
  /\ UNCHANGED notRenderer
  /\ pc = "idle"
  /\ calls < MaxCalls
  /\ calls' = calls + 1
  /\ callTier' = tier
  /\ stalled' = FALSE
  /\ smokeOk' = FALSE
  /\ webgpuRenderer' = 0
  /\ attemptOutcome' = "none"
  /\ IF TakesWebGLPath(navigatorGpu, tier)
     THEN /\ renderers' = Append(renderers, WebGLRendererOf(tier))
          /\ callCreated' = << Len(renderers) + 1 >>
          /\ lostHandlers' = lostHandlers + 1
          /\ restoredHandlers' = restoredHandlers + 1
          /\ result' = [type |-> "webgl2", renderer |-> Len(renderers) + 1]
          /\ pc' = "resolved"
          /\ UNCHANGED attempts
     ELSE /\ callCreated' = << >>
          /\ attempts' = attempts + 1
          /\ result' = NoResult
          /\ pc' = "awaitImport"
          /\ UNCHANGED << renderers, lostHandlers, restoredHandlers >>
  /\ UNCHANGED << session, navigatorGpu, flag, banners,
                  ctxLost, defaultPrevented, lossTrace, restoreTrace,
                  gpuFailed, restartCause, flagAtStart, lossEvents,
                  restoreEvents >>

\* lines 103-111: the import resolved; the WebGPURenderer is constructed on
\* the canvas and renderer.init() is awaited.
ImportResolved ==
  /\ UNCHANGED notRenderer
  /\ pc = "awaitImport"
  /\ ~stalled
  /\ renderers' = Append(renderers, WebGPURendererNew)
  /\ callCreated' = Append(callCreated, Len(renderers) + 1)
  /\ pc' = "awaitInit"
  /\ UNCHANGED << session, navigatorGpu, flag, stalled, callTier, calls,
                  smokeOk, webgpuRenderer, attemptOutcome, result,
                  lostHandlers, restoredHandlers, banners, ctxLost,
                  defaultPrevented, lossTrace, restoreTrace, attempts,
                  gpuFailed, restartCause, flagAtStart, lossEvents,
                  restoreEvents >>

\* lines 132-135: the import rejected; the catch block returns null.
ImportRejected ==
  /\ UNCHANGED notRenderer
  /\ pc = "awaitImport"
  /\ ~stalled
  /\ webgpuRenderer' = 0
  /\ attemptOutcome' = "initFailed"
  /\ gpuFailed' = TRUE
  /\ pc' = "awaitCreate"
  /\ UNCHANGED << session, navigatorGpu, flag, stalled, callTier, calls,
                  renderers, callCreated, smokeOk, result, lostHandlers,
                  restoredHandlers, banners, ctxLost, defaultPrevented,
                  lossTrace, restoreTrace, attempts, restartCause,
                  flagAtStart, lossEvents, restoreEvents >>

\* lines 113-121: init() resolved; the renderer is configured and the smoke
\* test runs to its return value, which is then awaited.
InitResolved ==
  /\ UNCHANGED notRenderer
  /\ pc = "awaitInit"
  /\ ~stalled
  /\ \E hasBackendDevice \in BOOLEAN, renderThrows \in BOOLEAN :
       smokeOk' = SmokeTestWebGPU(hasBackendDevice, renderThrows)
  /\ pc' = "awaitSmoke"
  /\ UNCHANGED << session, navigatorGpu, flag, stalled, callTier, calls,
                  renderers, callCreated, webgpuRenderer, attemptOutcome,
                  result, lostHandlers, restoredHandlers, banners, ctxLost,
                  defaultPrevented, lossTrace, restoreTrace, attempts,
                  gpuFailed, restartCause, flagAtStart, lossEvents,
                  restoreEvents >>

\* lines 132-135: init() rejected; the catch block returns null.  The
\* renderer constructed at line 105 is out of the catch block's scope and
\* is not disposed.
InitRejected ==
  /\ UNCHANGED notRenderer
  /\ pc = "awaitInit"
  /\ ~stalled
  /\ webgpuRenderer' = 0
  /\ attemptOutcome' = "initFailed"
  /\ gpuFailed' = TRUE
  /\ pc' = "awaitCreate"
  /\ UNCHANGED << session, navigatorGpu, flag, stalled, callTier, calls,
                  renderers, callCreated, smokeOk, result, lostHandlers,
                  restoredHandlers, banners, ctxLost, defaultPrevented,
                  lossTrace, restoreTrace, attempts, restartCause,
                  flagAtStart, lossEvents, restoreEvents >>

\* The promise awaited at line 103 or 111 never settles: no timer races it,
\* so no continuation of makeRenderer is ever scheduled.
NeverSettles ==
  /\ UNCHANGED notRenderer
  /\ pc \in {"awaitImport", "awaitInit"}
  /\ ~stalled
  /\ stalled' = TRUE
  /\ UNCHANGED << session, navigatorGpu, flag, pc, callTier, calls,
                  renderers, callCreated, smokeOk, webgpuRenderer,
                  attemptOutcome, result, lostHandlers, restoredHandlers,
                  banners, ctxLost, defaultPrevented, lossTrace,
                  restoreTrace, attempts, gpuFailed, restartCause,
                  flagAtStart, lossEvents, restoreEvents >>

\* lines 123-130: after the smoke test createWebGPURenderer disposes the
\* renderer and returns null, or returns the renderer.
SmokeTested ==
  /\ UNCHANGED notRenderer
  /\ pc = "awaitSmoke"
  /\ LET idx == callCreated[Len(callCreated)]
         r == AfterSmokeTest(renderers, idx, smokeOk)
     IN /\ renderers' = r.renderers
        /\ webgpuRenderer' = r.ret
        /\ attemptOutcome' = IF r.ret = 0 THEN "smokeFailed" ELSE "ok"
        /\ gpuFailed' = (gpuFailed \/ r.ret = 0)
  /\ pc' = "awaitCreate"
  /\ UNCHANGED << session, navigatorGpu, flag, stalled, callTier, calls,
                  callCreated, smokeOk, result, lostHandlers,
                  restoredHandlers, banners, ctxLost, defaultPrevented,
                  lossTrace, restoreTrace, attempts, restartCause,
                  flagAtStart, lossEvents, restoreEvents >>

\* lines 155-169: makeRenderer resumes with createWebGPURenderer's value:
\* the WebGPU renderer is returned as it is, or createWebGLRenderer runs.
WebGPUReturned ==
  /\ UNCHANGED notRenderer
  /\ pc = "awaitCreate"
  /\ IF webgpuRenderer # 0
     THEN /\ result' = [type |-> "webgpu", renderer |-> webgpuRenderer]
          /\ UNCHANGED << renderers, callCreated, lostHandlers,
                          restoredHandlers >>
     ELSE /\ renderers' = Append(renderers, WebGLRendererOf(callTier))
          /\ callCreated' = Append(callCreated, Len(renderers) + 1)
          /\ lostHandlers' = lostHandlers + 1
          /\ restoredHandlers' = restoredHandlers + 1
          /\ result' = [type |-> "webgl2", renderer |-> Len(renderers) + 1]
  /\ pc' = "resolved"
  /\ UNCHANGED << session, navigatorGpu, flag, stalled, callTier, calls,
                  smokeOk, webgpuRenderer, attemptOutcome, banners, ctxLost,
                  defaultPrevented, lossTrace, restoreTrace, attempts,
                  gpuFailed, restartCause, flagAtStart, lossEvents,
                  restoreEvents >>

\* The caller lets go of the renderer it was given (renderer.dispose())
\* before it asks for another.  The listeners stay on the canvas: they are
\* anonymous closures that nothing removes.
CallerDisposes ==
  /\ UNCHANGED notRenderer
  /\ pc = "resolved"
  /\ renderers' = [renderers EXCEPT ![result.renderer].disposed = TRUE]
  /\ pc' = "idle"
  /\ UNCHANGED << session, navigatorGpu, flag, stalled, callTier, calls,
                  callCreated, smokeOk, webgpuRenderer, attemptOutcome,
                  result, lostHandlers, restoredHandlers, banners, ctxLost,
                  defaultPrevented, lossTrace, restoreTrace, attempts,
                  gpuFailed, restartCause, flagAtStart, lossEvents,
                  restoreEvents >>

(* ------------------------- platform events ---------------------------- *)

\* The browser reports the loss of the canvas's WebGL context: every
\* 'webglcontextlost' listener runs (lines 69-90).
ContextLost ==
  /\ UNCHANGED notRenderer
  /\ LiveWebGL(renderers) # {}
  /\ ~ctxLost
  /\ \E storageThrows \in BOOLEAN :
       LET r == Dispatch(LostHandlerBody, lostHandlers,
                         PageState(flag, banners, FALSE), storageThrows)
       IN /\ flag' = r.flag
          /\ banners' = r.banners
          /\ defaultPrevented' = r.prevented
          /\ lossTrace' = r.trace
  /\ ctxLost' = TRUE
  /\ lossEvents' = lossEvents + 1
  /\ UNCHANGED << session, navigatorGpu, pc, stalled, callTier, calls,
                  renderers, callCreated, smokeOk, webgpuRenderer,
                  attemptOutcome, result, lostHandlers, restoredHandlers,
                  restoreTrace, attempts, gpuFailed, restartCause,
                  flagAtStart, restoreEvents >>

\* The browser restores the context, which it does only for a loss event
\* whose default was prevented: every 'webglcontextrestored' listener runs
\* (lines 92-96) and the page reloads when one of them asked for it.
ContextRestored ==
  /\ UNCHANGED notRenderer
  /\ ctxLost
  /\ defaultPrevented
  /\ session < MaxSessions
  /\ LET r == Dispatch(RestoredHandlerBody, restoredHandlers,
                       PageState(flag, banners, defaultPrevented), FALSE)
     IN /\ restoreTrace' = r.trace
        /\ IF r.reload
           THEN Reloaded("restore", r.flag)
           ELSE /\ flag' = r.flag
                /\ ctxLost' = FALSE
                /\ UNCHANGED << session, navigatorGpu, pc, stalled, callTier,
                                calls, renderers, callCreated, smokeOk,
                                webgpuRenderer, attemptOutcome, result,
                                lostHandlers, restoredHandlers, banners,
                                defaultPrevented, attempts, gpuFailed,
                                restartCause, flagAtStart >>
  /\ restoreEvents' = restoreEvents + 1
  /\ UNCHANGED << lossTrace, lossEvents >>

\* The user presses the notice's button: onclick="location.reload()"
\* (line 84).
ReloadButton ==
  /\ UNCHANGED notRenderer
  /\ banners > 0
  /\ session < MaxSessions
  /\ Reloaded("button", flag)
  /\ UNCHANGED << lossTrace, restoreTrace, lossEvents, restoreEvents >>

(* --------------------------- specification ---------------------------- *)

Next ==
  \/ \E tier \in Tiers : MakeRenderer(tier)
  \/ ImportResolved
  \/ ImportRejected
  \/ InitResolved
  \/ InitRejected
  \/ NeverSettles
  \/ SmokeTested
  \/ WebGPUReturned
  \/ CallerDisposes
  \/ ContextLost
  \/ ContextRestored
  \/ ReloadButton

Spec == Init /\ [][Next]_vars

\* The continuations of an async function are microtasks, which the event
\* loop always runs; a promise that is going to settle does settle.
FairSpec ==
  /\ Spec
  /\ WF_vars(ImportResolved \/ ImportRejected)
  /\ WF_vars(InitResolved \/ InitRejected)
  /\ WF_vars(SmokeTested)
  /\ WF_vars(WebGPUReturned)


(* ------------------------------ claims -------------------------------- *)

Awaiting == {"awaitImport", "awaitInit", "awaitSmoke", "awaitCreate"}

\* every "enter" (a listener starts) is followed at once by stmt
StartsWith(trace, stmt) ==
  \A i \in 1..Len(trace) :
    trace[i] = "enter" => (i < Len(trace) /\ trace[i + 1] = stmt)

\* every stmt2 of the trace comes after a stmt1 of the same listener run
Precedes(trace, stmt1, stmt2) ==
  \A i \in 1..Len(trace) :
    trace[i] = stmt2 =>
      \E j \in 1..(i - 1) :
        /\ trace[j] = stmt1
        /\ \A k \in j..i : trace[k] # "enter"

\* C1: for every context-loss event, each run of the loss listener calls
\* preventDefault as its first statement, before logging, before writing
\* the persisted flag and before showing the notice; so the default of
\* every delivered loss event is suppressed.
C1_PreventDefaultFirst ==
  /\ StartsWith(lossTrace, "preventDefault")
  /\ ctxLost => (lossTrace # << >> /\ defaultPrevented)

\* a loss event was handled in this session, and its listener went on to
\* write the flag and show the notice after preventDefault
C1_Witness ==
  /\ ctxLost
  /\ defaultPrevented
  /\ banners > 0
  /\ flag
  /\ Len(lossTrace) > 2

\* C2: renderer initialization never stays in Initializing forever: from
\* the start of the WebGPU attempt, makeRenderer always eventually leaves
\* its awaits (it resolves, or the page is reloaded), even when init()
\* never delivers a result.
C2_AlwaysResolves ==
  (pc \in Awaiting) ~> (pc \notin Awaiting)

\* C3: when the smoke test of the WebGPU renderer fails, the renderer under
\* test is disposed, createWebGPURenderer returns null, and makeRenderer
\* resolves with a live webgl2 renderer.
C3_SmokeFailureFallsBack ==
  /\ (pc = "awaitCreate" /\ attemptOutcome = "smokeFailed") =>
       /\ webgpuRenderer = 0
       /\ renderers[callCreated[Len(callCreated)]].kind = "webgpu"
       /\ renderers[callCreated[Len(callCreated)]].disposed
  /\ (pc = "resolved" /\ attemptOutcome = "smokeFailed") =>
       /\ Len(callCreated) = 2
       /\ renderers[callCreated[1]].kind = "webgpu"
       /\ renderers[callCreated[1]].disposed
       /\ result.type = "webgl2"
       /\ result.renderer = callCreated[2]
       /\ renderers[result.renderer].kind = "webgl2"
       /\ ~renderers[result.renderer].disposed

\* a call whose smoke test failed has resolved
C3_Witness ==
  /\ pc = "resolved"
  /\ attemptOutcome = "smokeFailed"
  /\ result.type = "webgl2"

\* C4: once a WebGPU attempt has failed in a session, no later step of
\* that session starts another WebGPU attempt.
C4_NoSecondAttempt ==
  [][(gpuFailed /\ session' = session) => attempts' = attempts]_vars

\* C5: every loss event leaves the persisted flag written, and every
\* restart of the session (by the restore listener or by the notice's
\* button) starts the next session with the flag clear.
C5_FlagWrittenAndCleared ==
  [][/\ (lossEvents' = lossEvents + 1) => flag'
     /\ (session' = session + 1) => (~flag' /\ ~flagAtStart')]_vars

\* C6: every loss event adds a notice to the page, also when the write of
\* the persisted flag fails.
C6_NoticeOnEveryLoss ==
  [][(lossEvents' = lossEvents + 1) => banners' > banners]_vars

\* C7: every restore event clears the persisted flag and restarts the
\* session, the flag being removed before location.reload() is called; the
\* page never goes on in the old session with the context restored.
C7_RestoreClearsAndRestarts ==
  [][(restoreEvents' = restoreEvents + 1) =>
       /\ Precedes(restoreTrace', "removeItem", "reload")
       /\ \E i \in 1..Len(restoreTrace') : restoreTrace'[i] = "reload"
       /\ ~flag'
       /\ ~flagAtStart'
       /\ session' = session + 1
       /\ restartCause' = "restore"
       /\ pc' = "idle"
       /\ renderers' = << >>
       /\ ~ctxLost']_vars

\* a session that a restore event started, after a loss event that had
\* written the flag
C7_Witness ==
  /\ restartCause = "restore"
  /\ session > 1
  /\ calls = 0
  /\ ~flag
  /\ \E i \in 1..Len(lossTrace) : lossTrace[i] = "createBanner"
  /\ restoreTrace # << >>

\* C8: whenever makeRenderer has resolved with a renderer, a loss listener
\* and a restore listener are on the canvas, whichever backend was chosen.
C8_HandlersInstalled ==
  (pc = "resolved" /\ result.type # "none") =>
    (lostHandlers > 0 /\ restoredHandlers > 0)

\* C9: at every point of a session at most one renderer is live (created
\* and not disposed), also while and after a failed WebGPU attempt is
\* replaced by the WebGL2 renderer.
C9_AtMostOneLive ==
  Cardinality(Live(renderers)) <= 1

\* C10: makeRenderer attempts WebGPU only when navigator.gpu is present and
\* the tier names webgpu; in every other case the call creates a WebGL2
\* renderer and nothing else, and resolves with type 'webgl2'.
C10_AttemptOnlyWhenRequested ==
  LET requested == navigatorGpu /\ TierIncludes(callTier, "webgpu") IN
  /\ pc \in Awaiting => requested
  /\ (pc \in Awaiting \cup {"resolved"} /\ ~requested) =>
       \A i \in 1..Len(callCreated) :
         renderers[callCreated[i]].kind = "webgl2"
  /\ (pc = "resolved" /\ ~requested) =>
       /\ Len(callCreated) = 1
       /\ result = [type |-> "webgl2", renderer |-> callCreated[1]]
       /\ renderers[callCreated[1]].kind = "webgl2"
       /\ attemptOutcome = "none"

\* the tier names webgpu but the platform has no navigator.gpu: the call
\* has resolved with a webgl2 renderer
C10_Witness ==
  /\ pc = "resolved"
  /\ ~navigatorGpu
  /\ TierIncludes(callTier, "webgpu")
  /\ result.type = "webgl2"


(***************************************************************************)
(* The tier configuration table (agent/knowledge-base.mjs,                 *)
(* performanceTiers).                                                      *)
(***************************************************************************)

\* tier lookups explored
MaxLookups == 4

TierNames == {"LOW", "BALANCED", "HIGH"}

\* performanceTiers.<tier>.config.  pixelRatio is in tenths (1.3 is 13).
PerformanceTiers_OldLowAnisotropy ==
  [ LOW |->
      [ pixelRatio |-> 10, shadowMapSize |-> 1024, maxTextureSize |-> 1024,
        anisotropy |-> 4, postProcessing |-> "false",
        dynamicShadows |-> FALSE, ao |-> FALSE, bloom |-> FALSE,
        ssgi |-> FALSE, ssr |-> FALSE, maxCanvasPixels |-> 900000 ],
    BALANCED |->
      [ pixelRatio |-> 13, shadowMapSize |-> 1024, maxTextureSize |-> 2048,
        anisotropy |-> 2, postProcessing |-> "minimal",
        dynamicShadows |-> FALSE, ao |-> FALSE, bloom |-> TRUE,
        ssgi |-> FALSE, ssr |-> FALSE, maxCanvasPixels |-> 1200000 ],
    HIGH |->
      [ pixelRatio |-> 20, shadowMapSize |-> 2048, maxTextureSize |-> 4096,
        anisotropy |-> 4, postProcessing |-> "true",
        dynamicShadows |-> TRUE, ao |-> TRUE, bloom |-> TRUE,
        ssgi |-> FALSE, ssr |-> FALSE, maxCanvasPixels |-> 3000000 ] ]

PerformanceTiers ==
  [ LOW |->
      [ pixelRatio |-> 10, shadowMapSize |-> 1024, maxTextureSize |-> 1024,
        anisotropy |-> 1, postProcessing |-> "false",
        dynamicShadows |-> FALSE, ao |-> FALSE, bloom |-> FALSE,
        ssgi |-> FALSE, ssr |-> FALSE, maxCanvasPixels |-> 900000 ],
    BALANCED |->
      [ pixelRatio |-> 13, shadowMapSize |-> 1024, maxTextureSize |-> 2048,
        anisotropy |-> 2, postProcessing |-> "minimal",
        dynamicShadows |-> FALSE, ao |-> FALSE, bloom |-> TRUE,
        ssgi |-> FALSE, ssr |-> FALSE, maxCanvasPixels |-> 1200000 ],
    HIGH |->
      [ pixelRatio |-> 20, shadowMapSize |-> 2048, maxTextureSize |-> 4096,
        anisotropy |-> 4, postProcessing |-> "true",
        dynamicShadows |-> TRUE, ao |-> TRUE, bloom |-> TRUE,
        ssgi |-> FALSE, ssr |-> FALSE, maxCanvasPixels |-> 3000000 ] ]

\* performanceTiers[tier].config
ConfigFor(tier) == PerformanceTiers[tier]

\* everything outside the table
notTier == << vars, simplifyVars, sceneVars, otherVars >>

\* A component reads the config of a tier.
LookupTier(tier) ==
  /\ Len(lookups) < MaxLookups
  /\ lookups' = Append(lookups, tier)
  /\ configs' = Append(configs, ConfigFor(tier))
  /\ UNCHANGED notTier

\* the renderer before its first call, as a fixed background
RendererIdle ==
  /\ session = 1
  /\ navigatorGpu = FALSE
  /\ flag = FALSE
  /\ FreshPage
  /\ lossTrace = << >>
  /\ restoreTrace = << >>
  /\ lossEvents = 0
  /\ restoreEvents = 0
  /\ restartCause = "none"
  /\ flagAtStart = FALSE

allVars == << vars, tierVars, simplifyVars, sceneVars, otherVars >>

TierInit ==
  /\ TierIdle
  /\ RendererIdle
  /\ SimplifyIdle
  /\ SceneIdle
  /\ OthersIdle

TierNext == \E tier \in TierNames : LookupTier(tier)

TierSpec == TierInit /\ [][TierNext]_allVars

TierRank(tier) ==
  CASE tier = "LOW" -> 1
    [] tier = "BALANCED" -> 2
    [] tier = "HIGH" -> 3

BoolRank(b) == IF b THEN 1 ELSE 0

\* every resource-cost field of config a is at most that of config b
CostAtMost(a, b) ==
  /\ a.pixelRatio <= b.pixelRatio
  /\ a.shadowMapSize <= b.shadowMapSize
  /\ a.maxTextureSize <= b.maxTextureSize
  /\ a.anisotropy <= b.anisotropy
  /\ a.maxCanvasPixels <= b.maxCanvasPixels
  /\ BoolRank(a.dynamicShadows) <= BoolRank(b.dynamicShadows)
  /\ BoolRank(a.ao) <= BoolRank(b.ao)
  /\ BoolRank(a.bloom) <= BoolRank(b.bloom)

\* C13: in the tier configuration table every resource-cost field (pixel
\* ratio, shadow map size, maximum texture size, anisotropy, maximum canvas
\* pixels, dynamic shadows, ambient occlusion, bloom) is ordered
\* LOW <= BALANCED <= HIGH: of any two configs looked up, the one of the
\* lower tier costs at most as much in every field.
C13_TierCostsOrdered ==
  \A i, j \in 1..Len(lookups) :
    TierRank(lookups[i]) <= TierRank(lookups[j]) =>
      CostAtMost(configs[i], configs[j])

\* all three tiers have been looked up
C13_Witness ==
  /\ \E i \in 1..Len(lookups) : lookups[i] = "LOW"
  /\ \E i \in 1..Len(lookups) : lookups[i] = "BALANCED"
  /\ \E i \in 1..Len(lookups) : lookups[i] = "HIGH"
  /\ Len(configs) = Len(lookups)


(***************************************************************************)
(* Geometry decimation (utils/simplifyGeometry.ts).                        *)
(***************************************************************************)

\* longest index buffer explored
MaxIndexCount == 60

\* simplifyGeometryForMobile returns geometries below this vertex count as
\* they are
SimplifyMinVertices == 10000

\* shouldSimplifyMesh accepts only meshes above this vertex count
GateMinVertices == 50000

\* position.count of the geometries explored: around both thresholds
VertexCounts == {9999, 10000, 50000, 50001}

\* targetRatio in tenths: 0.1 .. 1.0 (0.3 is what SingleEnvironmentMesh
\* passes, 0.5 the default)
Ratios == 1..10

\* an index buffer of n entries; entry i (from 0) holds i
IndexBuffer(n) == [i \in 1..n |-> i - 1]

Geometries ==
  { [ id |-> 1, vertexCount |-> v, indexed |-> TRUE,
      index |-> IndexBuffer(n), recomputed |-> FALSE ] :
      v \in VertexCounts, n \in 0..MaxIndexCount }
  \cup
  { [ id |-> 1, vertexCount |-> v, indexed |-> FALSE,
      index |-> << >>, recomputed |-> FALSE ] : v \in VertexCounts }

\* array[i] of a JavaScript array, i from 0; -1 stands for undefined
IndexAt(a, i) == IF i < Len(a) THEN a[i + 1] ELSE -1

\* line 292
BelowThreshold_Typo(vertexCount) == vertexCount < 1000

BelowThreshold(vertexCount) == vertexCount < SimplifyMinVertices

\* line 302: Math.floor(indexCount * targetRatio)
TargetIndexCount(indexCount, ratio) == (indexCount * ratio) \div 10

\* line 303: Math.ceil(indexCount / targetIndexCount); a division by zero
\* gives Infinity (NaN for 0 / 0), for which finite is FALSE
StepOf(indexCount, target) ==
  IF target = 0 THEN [finite |-> FALSE, val |-> 0]
  ELSE [finite |-> TRUE, val |-> (indexCount + target - 1) \div target]

\* line 307
KeepsTriangle_Loose(i, indexCount) == i < indexCount

KeepsTriangle(i, indexCount) == i + 2 < indexCount

\* lines 305-314: the loop from position i on, acc being newIndices.  With
\* an infinite step the loop ends after its first round; with NaN the
\* buffer is empty and the loop is never entered.
RECURSIVE DecimateFrom(_, _, _, _)
DecimateFrom(a, i, step, acc) ==
  IF ~(i < Len(a)) THEN acc
  ELSE LET pushed ==
             IF KeepsTriangle(i, Len(a))
             THEN acc \o << IndexAt(a, i), IndexAt(a, i + 1),
                            IndexAt(a, i + 2) >>
             ELSE acc
       IN IF step.finite
          THEN DecimateFrom(a, i + step.val * 3, step, pushed)
          ELSE pushed

\* simplifyGeometryForMobile(geometry, targetRatio); newId is the identity
\* of the clone
SimplifyGeometryForMobile_InPlace(g, ratio, newId) ==
  IF BelowThreshold(g.vertexCount) THEN g
  ELSE [ id |-> g.id,
         vertexCount |-> g.vertexCount,
         indexed |-> g.indexed,
         index |->
           IF g.indexed
           THEN DecimateFrom(g.index, 0,
                             StepOf(Len(g.index),
                                    TargetIndexCount(Len(g.index), ratio)),
                             << >>)
           ELSE g.index,
         recomputed |-> TRUE ]

SimplifyGeometryForMobile(g, ratio, newId) ==
  IF BelowThreshold(g.vertexCount) THEN g
  ELSE [ id |-> newId,
         vertexCount |-> g.vertexCount,
         indexed |-> g.indexed,
         index |->
           IF g.indexed
           THEN DecimateFrom(g.index, 0,
                             StepOf(Len(g.index),
                                    TargetIndexCount(Len(g.index), ratio)),
                             << >>)
           ELSE g.index,
         recomputed |-> TRUE ]

\* shouldSimplifyMesh(mesh, isMobile)
ShouldSimplifyMesh(hasPosition, vertexCount, isMobile) ==
  IF ~isMobile THEN FALSE
  ELSE IF ~hasPosition THEN FALSE
  ELSE vertexCount > GateMinVertices

notSimplify == << vars, tierVars, sceneVars, otherVars >>

SimplifyInit ==
  /\ sIn \in Geometries
  /\ sRatio \in Ratios
  /\ sMobile \in BOOLEAN
  /\ sCalled = FALSE
  /\ sOut = NoGeometry
  /\ gCalled = FALSE
  /\ gOut = FALSE
  /\ RendererIdle
  /\ TierIdle
  /\ SceneIdle
  /\ OthersIdle

\* simplifyGeometryForMobile is called on the geometry
CallSimplify ==
  /\ ~sCalled
  /\ sCalled' = TRUE
  /\ sOut' = SimplifyGeometryForMobile(sIn, sRatio, sIn.id + 1)
  /\ UNCHANGED << sIn, sRatio, sMobile, gCalled, gOut >>
  /\ UNCHANGED notSimplify

\* shouldSimplifyMesh is called on a mesh with the geometry
CallGate ==
  /\ ~gCalled
  /\ gCalled' = TRUE
  /\ gOut' = ShouldSimplifyMesh(TRUE, sIn.vertexCount, sMobile)
  /\ UNCHANGED << sIn, sRatio, sMobile, sCalled, sOut >>
  /\ UNCHANGED notSimplify

SimplifyNext ==
  \/ CallSimplify
  \/ CallGate

SimplifySpec == SimplifyInit /\ [][SimplifyNext]_allVars

\* C14 as stated: for every indexed mesh and every ratio in (0, 1] the
\* output's index count is at most the input's and is divisible by 3.
C14_Original ==
  (sCalled /\ sIn.indexed) =>
    /\ Len(sOut.index) <= Len(sIn.index)
    /\ Len(sOut.index) % 3 = 0

\* C14, amended: for every indexed mesh and every ratio in (0, 1] the
\* output's index count is at most the input's; it is divisible by 3 when
\* the mesh has at least 10,000 vertices (the buffer is rebuilt from whole
\* triangles) or the input's count already is; below 10,000 vertices the
\* count is the input's.
C14_CountBoundedAndWholeTriangles ==
  (sCalled /\ sIn.indexed) =>
    /\ Len(sOut.index) <= Len(sIn.index)
    /\ (sIn.vertexCount >= 10000 \/ Len(sIn.index) % 3 = 0) =>
         Len(sOut.index) % 3 = 0
    /\ sIn.vertexCount < 10000 => Len(sOut.index) = Len(sIn.index)

\* a mesh at the threshold whose index count is no multiple of 3, with a
\* ratio so small that the target count is 0: one triangle is kept
C14_Witness ==
  /\ sCalled
  /\ sIn.indexed
  /\ sIn.vertexCount >= 10000
  /\ Len(sIn.index) % 3 # 0
  /\ (Len(sIn.index) * sRatio) \div 10 = 0
  /\ Len(sOut.index) = 3

\* C15: a mesh below 10,000 vertices comes back from
\* simplifyGeometryForMobile as the very same geometry, for every ratio,
\* and shouldSimplifyMesh never accepts a mesh of at most 50,000 vertices.
C15_SmallMeshUnchanged ==
  /\ (sCalled /\ sIn.vertexCount < 10000) => sOut = sIn
  /\ (gCalled /\ sIn.vertexCount <= 50000) => gOut = FALSE

\* both functions have run on an indexed mesh of 9,999 vertices, on mobile
C15_Witness ==
  /\ sCalled
  /\ gCalled
  /\ sMobile
  /\ sIn.vertexCount = 9999
  /\ sIn.indexed
  /\ Len(sIn.index) >= 3
  /\ sOut.id = sIn.id

\* C16: for an indexed mesh above the size threshold with T triangles and
\* ratio r, the triangles kept are r x T up to rounding (floor or ceiling).
C16_KeepsRatioOfTriangles ==
  (/\ sCalled
   /\ sIn.indexed
   /\ sIn.vertexCount > 50000
   /\ Len(sIn.index) % 3 = 0) =>
    LET T == Len(sIn.index) \div 3
        kept == Len(sOut.index) \div 3
    IN /\ kept >= (sRatio * T) \div 10
       /\ kept <= (sRatio * T + 9) \div 10



(***************************************************************************)
(* Device classification (perf/PerfFlags.ts) and the environment scene     *)
(* (components/SingleEnvironmentMesh.tsx).                                 *)
(*                                                                         *)
(* PerfFlags is built once, when its module is first imported.  The        *)
(* component is a React function component: its body runs at every render, *)
(* and each of its four effects runs after the first render and after      *)
(* every render in which one of its dependencies has changed.  The scenes  *)
(* useGLTF returns are cached, so the isMobile dependency is the only one  *)
(* that changes.  The component re-renders whenever its parent does or the *)
(* store behind useThree() changes, which a viewport resize causes.        *)
(***************************************************************************)

\* viewport resizes explored
MaxResizes == 3

MobileLow == << "mobile", "Low" >>

DesktopHigh == << "desktop", "High" >>

\* navigator.userAgent, as the sequence of its words
UserAgents ==
  { << "Windows", "Chrome" >>, << "Android", "Mobile", "Chrome" >>,
    << "iPhone", "Mobile", "Safari" >> }

\* navigator.deviceMemory: undefined where the browser does not report it
DeviceMemories ==
  { [reported |-> FALSE, gb |-> 0], [reported |-> TRUE, gb |-> 4],
    [reported |-> TRUE, gb |-> 8] }

Signals ==
  [ userAgent : UserAgents, touch : BOOLEAN, deviceMemory : DeviceMemories ]

\* window.innerWidth and window.innerHeight, around the thresholds
Widths == {599, 600, 767, 768}

Heights == {599, 600}

\* /Mobi|Android|iPhone|iPad|iPod/i.test(userAgent): "Mobile" contains Mobi
IsMobileUA(userAgent) ==
  \E i \in 1..Len(userAgent) :
    userAgent[i] \in {"Mobile", "Android", "iPhone", "iPad", "iPod"}

\* /iPhone|iPad|iPod/i.test(userAgent)
IsIOS(userAgent) ==
  \E i \in 1..Len(userAgent) : userAgent[i] \in {"iPhone", "iPad", "iPod"}

\* line 229
IsNarrowViewport_Simulator(width) == width < 600

IsNarrowViewport(width) == width < 768

\* line 230: deviceMemory ? deviceMemory <= 4 : false
HasLowMemory(deviceMemory) ==
  IF deviceMemory.reported /\ deviceMemory.gb # 0
  THEN deviceMemory.gb <= 4
  ELSE FALSE

\* line 231, and line 74 of the component
IsSimulatorSize(width, height) == width < 600 \/ height < 600

\* line 233
ClassifyMobile(s, width, height) ==
  \/ IsMobileUA(s.userAgent)
  \/ (s.touch /\ IsNarrowViewport(width))
  \/ HasLowMemory(s.deviceMemory)
  \/ IsSimulatorSize(width, height)

\* the object the initialiser returns (238-254); viewport is what line 236
\* logs
PerfFlagsOf(s, width, height) ==
  LET isMobile == ClassifyMobile(s, width, height)
      tier == IF isMobile THEN MobileLow ELSE DesktopHigh
  IN [ loaded |-> TRUE,
       tier |-> tier,
       isMobile |-> isMobile,
       isIOS |-> IsIOS(s.userAgent),
       dynamicShadows |-> (tier = DesktopHigh),
       ssr |-> FALSE,
       ssgi |-> (tier = DesktopHigh),
       ao |-> (tier = DesktopHigh),
       bloom |-> (tier = DesktopHigh),
       anisotropy |-> IF tier = DesktopHigh THEN 8 ELSE 2,
       maxTextureSize |-> IF tier = DesktopHigh THEN 4096 ELSE 1024,
       viewport |-> << width, height >> ]

\* before the module is imported
NoPerf ==
  [ loaded |-> FALSE, tier |-> NoTier, isMobile |-> FALSE, isIOS |-> FALSE,
    dynamicShadows |-> FALSE, ssr |-> FALSE, ssgi |-> FALSE, ao |-> FALSE,
    bloom |-> FALSE, anisotropy |-> 0, maxTextureSize |-> 0,
    viewport |-> << 0, 0 >> ]

\* the four environment models the component loads (79-82)
Models == {"others", "frame", "roof", "stages"}

\* texture channels of a material as loaded: all of them, or a normal map
\* only
Materials ==
  { [normalMap |-> TRUE, roughnessMap |-> TRUE, metalnessMap |-> TRUE],
    [normalMap |-> TRUE, roughnessMap |-> FALSE, metalnessMap |-> FALSE] }

\* The mesh of a model: its geometry, the channels of its material, the
\* material's needsUpdate, its shadow flag, and how often its geometry has
\* been replaced by a decimated one.
MeshOf(geometry, material) ==
  [ geometry |-> geometry,
    normalMap |-> material.normalMap,
    roughnessMap |-> material.roughnessMap,
    metalnessMap |-> material.metalnessMap,
    needsUpdate |-> FALSE,
    castShadow |-> FALSE,
    decimations |-> 0 ]

\* geometry of the large mesh of others2.glb: at and above the gate
OthersGeometries ==
  { [ id |-> 1, vertexCount |-> v, indexed |-> TRUE,
      index |-> IndexBuffer(60), recomputed |-> FALSE ] :
      v \in {GateMinVertices, GateMinVertices + 1} }

\* geometry of the meshes of the other three models
SmallGeometry ==
  [ id |-> 1, vertexCount |-> 9999, indexed |-> TRUE,
    index |-> IndexBuffer(6), recomputed |-> FALSE ]

NotMounted ==
  [ mounted |-> FALSE, tier |-> NoTier, isMobile |-> FALSE,
    shadowsEnabled |-> FALSE ]

\* gl.shadowMap.enabled: createWebGLRenderer sets it to
\* !tier.startsWith('mobile') (makeRenderer.ts line 57)
GlShadowMapEnabled(tier) == ~TierStartsWith(tier, "mobile")

\* lines 74-75
ComponentIsMobile(tier) ==
  \/ TierStartsWith(tier, "mobile")
  \/ perf.isMobile
  \/ IsSimulatorSize(innerWidth, innerHeight)

\* line 84
ShadowsEnabled(tier) == GlShadowMapEnabled(tier) /\ ~ComponentIsMobile(tier)

\* lines 86-138, on the mesh of others2.glb.  makeFacesBehave repairs
\* mirrored transforms, transparency and bounds and leaves geometry index
\* buffers and texture channels alone.
OthersEffect(mesh, isMobile, shadowsEnabled) ==
  LET simplify ==
        ShouldSimplifyMesh(TRUE, mesh.geometry.vertexCount, isMobile)
  IN [ geometry |->
         IF simplify
         THEN SimplifyGeometryForMobile(mesh.geometry, 3,
                                        mesh.geometry.id + 1)
         ELSE mesh.geometry,
       normalMap |-> FALSE,
       roughnessMap |-> FALSE,
       metalnessMap |-> FALSE,
       needsUpdate |-> TRUE,
       castShadow |-> (shadowsEnabled \/ mesh.castShadow),
       decimations |->
         IF simplify THEN mesh.decimations + 1 ELSE mesh.decimations ]

\* lines 140-148: makeFacesBehave and fixInvertedFacesSelective only
FrameEffect(mesh, isMobile, shadowsEnabled) == mesh

\* lines 150-179 and 181-210: shadow flags only
ShadowEffect(mesh, isMobile, shadowsEnabled) ==
  [mesh EXCEPT !.castShadow = shadowsEnabled \/ mesh.castShadow]

EffectOf(model, mesh, isMobile, shadowsEnabled) ==
  CASE model = "others" -> OthersEffect(mesh, isMobile, shadowsEnabled)
    [] model = "frame" -> FrameEffect(mesh, isMobile, shadowsEnabled)
    [] OTHER -> ShadowEffect(mesh, isMobile, shadowsEnabled)

\* One render of the component with the given tier prop, followed by the
\* effects whose dependency list changed (every effect after the first
\* render).
RenderWith(tier) ==
  LET isMobile == ComponentIsMobile(tier)
      shadowsEnabled == ShadowsEnabled(tier)
      Runs(m) == ~effDeps[m].ran \/ effDeps[m].isMobile # isMobile
  IN /\ rendered' =
          [ mounted |-> TRUE, tier |-> tier, isMobile |-> isMobile,
            shadowsEnabled |-> shadowsEnabled ]
     /\ scene' =
          [ m \in Models |->
              IF Runs(m)
              THEN EffectOf(m, scene[m], isMobile, shadowsEnabled)
              ELSE scene[m] ]
     /\ effDeps' = [ m \in Models |-> [ran |-> TRUE, isMobile |-> isMobile] ]
     /\ passes' =
          [ m \in Models |-> IF Runs(m) THEN passes[m] + 1 ELSE passes[m] ]

notScene == << vars, tierVars, simplifyVars, otherVars >>

SceneInit ==
  /\ sig \in Signals
  /\ innerWidth \in Widths
  /\ innerHeight \in Heights
  /\ perf = NoPerf
  /\ rendered = NotMounted
  /\ effDeps = [ m \in Models |-> [ran |-> FALSE, isMobile |-> FALSE] ]
  /\ \E g \in OthersGeometries, mat \in Materials :
       scene = [ m \in Models |->
                   IF m = "others" THEN MeshOf(g, mat)
                   ELSE MeshOf(SmallGeometry, mat) ]
  /\ passes = [ m \in Models |-> 0 ]
  /\ resizes = 0
  /\ RendererIdle
  /\ TierIdle
  /\ SimplifyIdle
  /\ OthersIdle

\* perf/PerfFlags.ts is imported: the classifier runs
LoadPerfFlags ==
  /\ ~perf.loaded
  /\ perf' = PerfFlagsOf(sig, innerWidth, innerHeight)
  /\ UNCHANGED << sig, innerWidth, innerHeight, rendered, effDeps, scene,
                  passes, resizes >>
  /\ UNCHANGED notScene

\* the component mounts with one of the tiers PerfFlags can produce
Mount(tier) ==
  /\ perf.loaded
  /\ ~rendered.mounted
  /\ RenderWith(tier)
  /\ UNCHANGED << sig, innerWidth, innerHeight, perf, resizes >>
  /\ UNCHANGED notScene

\* the browser window, or the simulated device frame, is resized
Resize(width, height) ==
  /\ resizes < MaxResizes
  /\ << width, height >> # << innerWidth, innerHeight >>
  /\ innerWidth' = width
  /\ innerHeight' = height
  /\ resizes' = resizes + 1
  /\ UNCHANGED << sig, perf, rendered, effDeps, scene, passes >>
  /\ UNCHANGED notScene

\* the mounted component renders again, with the same props
Rerender ==
  /\ rendered.mounted
  /\ RenderWith(rendered.tier)
  /\ UNCHANGED << sig, innerWidth, innerHeight, perf, resizes >>
  /\ UNCHANGED notScene

SceneNext ==
  \/ LoadPerfFlags
  \/ \E tier \in {MobileLow, DesktopHigh} : Mount(tier)
  \/ \E width \in Widths, height \in Heights : Resize(width, height)
  \/ Rerender

SceneSpec == SceneInit /\ [][SceneNext]_allVars

\* C11: the classifier selects mobileLow exactly when the user agent is a
\* handheld's, or the device has touch and the viewport is narrower than
\* 768, or it reports a device memory of at most 4 GB, or the viewport is
\* narrower or lower than 600; for every other signal tuple, an unreported
\* device memory included, it selects desktopHigh.
C11_TierIffSignal ==
  perf.loaded =>
    LET handheld == sig.userAgent # << "Windows", "Chrome" >>
        width == perf.viewport[1]
        height == perf.viewport[2]
        constrained ==
          \/ handheld
          \/ (sig.touch /\ width < 768)
          \/ (sig.deviceMemory.reported /\ sig.deviceMemory.gb <= 4)
          \/ width < 600
          \/ height < 600
    IN /\ constrained => perf.tier = MobileLow
       /\ ~constrained => perf.tier = DesktopHigh

\* a desktop browser with touch on a viewport 767 wide and 600 high, memory
\* not reported: touch and the narrow viewport alone give mobileLow
C11_Witness ==
  /\ perf.loaded
  /\ sig.userAgent = << "Windows", "Chrome" >>
  /\ sig.touch
  /\ ~sig.deviceMemory.reported
  /\ perf.viewport = << 767, 600 >>
  /\ perf.tier = MobileLow

\* C12: the decision is made once and never changes: after any sequence of
\* resizes and re-renders the component, given the classified tier, still
\* acts on the isMobile of classification time.
C12_DecisionNeverChanges ==
  (rendered.mounted /\ rendered.tier = perf.tier) =>
    rendered.isMobile = perf.isMobile

\* C17: in a session classified desktopHigh, whose component is given that
\* tier, no mesh is ever decimated.
C17_NoDecimationOnDesktop ==
  (perf.loaded /\ perf.tier = DesktopHigh /\ rendered.tier = DesktopHigh) =>
    \A m \in Models : scene[m].decimations = 0

\* C18: each mesh is decimated at most once per session, however often the
\* scene-processing effect re-runs.
C18_DecimatedAtMostOnce ==
  \A m \in Models : scene[m].decimations <= 1

\* C19: on a constrained tier, once the component has mounted and its
\* effects have run, every material of every environment model has no
\* normal, roughness or metalness channel and has needsUpdate set.
C19_AllModelsStripped ==
  (rendered.mounted /\ perf.tier = MobileLow /\ rendered.tier = MobileLow) =>
    \A m \in Models :
      /\ ~scene[m].normalMap
      /\ ~scene[m].roughnessMap
      /\ ~scene[m].metalnessMap
      /\ scene[m].needsUpdate

\* C20: on the desktop tier a render and its effects keep the normal,
\* roughness and metalness maps of every material: a channel present before
\* is present after.
C20_DesktopKeepsMaps ==
  [][ (/\ perf.tier = DesktopHigh
       /\ rendered'.mounted
       /\ rendered'.tier = DesktopHigh
       /\ ~rendered'.isMobile) =>
        \A m \in Models :
          /\ scene[m].normalMap => scene'[m].normalMap
          /\ scene[m].roughnessMap => scene'[m].roughnessMap
          /\ scene[m].metalnessMap => scene'[m].metalnessMap ]_allVars


(***************************************************************************)
(* Further properties of utils/simplifyGeometry.ts.                        *)
(***************************************************************************)

MaxErrorCalls == 52

\* logger.error calls explored that persist nothing for a reason outside
\* the store: the ERROR category is off, or persistError throws
MaxDrops == 1

\* line 394
KeepLast == 50

\* values found under 'app_errors' when the page loads, besides arrays the
\* logger wrote itself
StartItems ==
  { [kind |-> k, items |-> << >>] :
      k \in {"absent", "empty", "other", "invalid"} }

\* the last n entries of a list
LastN(list, n) ==
  IF Len(list) <= n THEN list
  ELSE SubSeq(list, Len(list) - n + 1, Len(list))

\* line 388: JSON.parse(localStorage.getItem('app_errors') || '[]').  null
\* and the empty string are falsy and read as '[]'; text that is not JSON
\* makes JSON.parse throw.
ReadErrors_ResetsCorrupt(item) ==
  IF item.kind = "array"
  THEN [threw |-> FALSE, isArray |-> TRUE, items |-> item.items]
  ELSE [threw |-> FALSE, isArray |-> TRUE, items |-> << >>]

ReadErrors(item) ==
  CASE item.kind \in {"absent", "empty"} ->
         [threw |-> FALSE, isArray |-> TRUE, items |-> << >>]
    [] item.kind = "array" ->
         [threw |-> FALSE, isArray |-> TRUE, items |-> item.items]
    [] item.kind = "other" ->
         [threw |-> FALSE, isArray |-> FALSE, items |-> << >>]
    [] item.kind = "invalid" ->
         [threw |-> TRUE, isArray |-> FALSE, items |-> << >>]

\* line 394: if (errors.length > 50) errors.shift()
TrimErrors_DropsNewest(errors) ==
  IF Len(errors) > KeepLast THEN SubSeq(errors, 1, KeepLast) ELSE errors

TrimErrors(errors) ==
  IF Len(errors) > KeepLast THEN Tail(errors) ELSE errors

\* persistError (386-399): the item it leaves in the store, and whether it
\* reached the end of its try block.  errors.push throws on a value that is
\* no array; JSON.stringify of an argument and setItem may throw; the catch
\* block swallows every one of these.
PersistError(item, entry, stringifyThrows, setItemThrows) ==
  LET read == ReadErrors(item)
  IN IF read.threw \/ ~read.isArray \/ stringifyThrows \/ setItemThrows
     THEN [item |-> item, done |-> FALSE]
     ELSE [ item |->
              [kind |-> "array",
               items |-> TrimErrors(Append(read.items, entry))],
            done |-> TRUE ]

\* getPersistedErrors (401-407)
GetPersistedErrorsOf(item) ==
  LET read == ReadErrors(item)
  IN IF read.threw THEN [isList |-> TRUE, items |-> << >>]
     ELSE [isList |-> read.isArray, items |-> read.items]

NoList == [isList |-> FALSE, items |-> << >>]

notLogger ==
  << vars, tierVars, simplifyVars, sceneVars, agentVars, governorVars,
     shadowVars >>

LoggerInit ==
  /\ lgStore \in StartItems
  /\ lgErrorOn = TRUE
  /\ lgLogged = << >>
  /\ lgPersisted = << >>
  /\ lgDrops = 0
  /\ lgGot = NoList
  /\ lgLast = NoCall
  /\ AgentIdle
  /\ GovernorIdle
  /\ ShadowIdle
  /\ RendererIdle
  /\ TierIdle
  /\ SimplifyIdle
  /\ SceneIdle

\* logger.error(...args) (379-384)
LogError(stringifyThrows, setItemThrows) ==
  /\ Len(lgLogged) < MaxErrorCalls
  /\ (stringifyThrows \/ setItemThrows \/ ~lgErrorOn) => lgDrops < MaxDrops
  /\ LET entry == Len(lgLogged) + 1
         out == IF lgErrorOn
                THEN PersistError(lgStore, entry, stringifyThrows,
                                  setItemThrows)
                ELSE [item |-> lgStore, done |-> FALSE]
     IN /\ lgStore' = out.item
        /\ lgLogged' = Append(lgLogged, entry)
        /\ lgPersisted' =
             IF out.done THEN Append(lgPersisted, entry) ELSE lgPersisted
        /\ lgDrops' =
             IF stringifyThrows \/ setItemThrows \/ ~lgErrorOn
             THEN lgDrops + 1 ELSE lgDrops
  /\ lgGot' = NoList
  /\ lgLast' = [op |-> "error", threw |-> FALSE]
  /\ UNCHANGED lgErrorOn
  /\ UNCHANGED notLogger

\* logger.getPersistedErrors()
GetPersistedErrors ==
  /\ lgGot' = GetPersistedErrorsOf(lgStore)
  /\ lgLast' = [op |-> "get", threw |-> FALSE]
  /\ UNCHANGED << lgStore, lgErrorOn, lgLogged, lgPersisted, lgDrops >>
  /\ UNCHANGED notLogger

\* logger.clearPersistedErrors(): the store is empty again
ClearPersistedErrors ==
  /\ lgStore' = NoItem
  /\ lgLogged' = << >>
  /\ lgPersisted' = << >>
  /\ lgGot' = NoList
  /\ lgLast' = [op |-> "clear", threw |-> FALSE]
  /\ UNCHANGED << lgErrorOn, lgDrops >>
  /\ UNCHANGED notLogger

\* logger.enableCategory('ERROR') / logger.disableCategory('ERROR')
SetErrorCategory(on) ==
  /\ lgErrorOn # on
  /\ lgErrorOn' = on
  /\ lgGot' = NoList
  /\ lgLast' = [op |-> "category", threw |-> FALSE]
  /\ UNCHANGED << lgStore, lgLogged, lgPersisted, lgDrops >>
  /\ UNCHANGED notLogger

LoggerNext ==
  \/ \E stringifyThrows \in BOOLEAN, setItemThrows \in BOOLEAN :
       LogError(stringifyThrows, setItemThrows)
  \/ GetPersistedErrors
  \/ ClearPersistedErrors
  \/ \E on \in BOOLEAN : SetErrorCategory(on)

LoggerSpec == LoggerInit /\ [][LoggerNext]_allVars

\* C26 as stated: starting from an empty store, after any sequence of
\* logger.error calls the stored list has at most 50 entries and holds the
\* most recent errors in the order they were logged.
C26_Original ==
  (lgStore.kind \in {"absent", "array"} /\ lgLogged # << >>) =>
    /\ lgStore.kind = "array"
    /\ Len(lgStore.items) <= 50
    /\ lgStore.items = LastN(lgLogged, 50)

\* C26, amended: starting from an empty store, the stored list has at most
\* 50 entries and holds, in the order they were logged, the most recent of
\* the errors whose persistError call ran to its end; an error logged while
\* the ERROR category is off or whose persistError throws (storage full, an
\* argument JSON.stringify rejects) is left out silently.
C26_KeepsLastPersisted ==
  (lgStore.kind \in {"absent", "array"}) =>
    /\ Len(lgStore.items) <= 50
    /\ lgStore.items = LastN(lgPersisted, 50)
    /\ \A i \in 1..Len(lgStore.items) :
         \E j \in 1..Len(lgLogged) : lgLogged[j] = lgStore.items[i]
    /\ \A i, j \in 1..Len(lgStore.items) :
         i < j => lgStore.items[i] < lgStore.items[j]

\* 52 errors were logged and all persisted: the store holds the last 50,
\* the third one first
C26_Witness ==
  /\ lgStore.kind = "array"
  /\ Len(lgLogged) = 52
  /\ Len(lgPersisted) = 52
  /\ Len(lgStore.items) = 50
  /\ lgStore.items[1] = 3
  /\ lgStore.items[50] = 52

\* C29 as stated: while the stored value is not a JSON array, logger.error
\* does not throw and leaves the stored value as it is, getPersistedErrors
\* returns an empty list when the value is not valid JSON, and only
\* clearPersistedErrors changes the stored value.
C29_Original ==
  [][ /\ (lgStore.kind \in {"empty", "other", "invalid"}
            /\ Len(lgLogged') > Len(lgLogged) /\ lgErrorOn) =>
           (lgStore' = lgStore /\ ~lgLast'.threw /\ lgPersisted' = lgPersisted)
      /\ (lgStore.kind \in {"empty", "invalid"} /\ lgLast'.op = "get") =>
           lgGot' = [isList |-> TRUE, items |-> << >>]
      /\ (lgStore.kind \in {"empty", "other", "invalid"}
            /\ lgStore' # lgStore) =>
           lgLast'.op = "clear" ]_allVars

\* C29, amended: while the stored value is a non-empty text that is not a
\* JSON array, logger.error does not throw, persists nothing and leaves the
\* stored value as it is, getPersistedErrors returns an empty list when the
\* value is not valid JSON, and only clearPersistedErrors makes persisting
\* work again; an empty string is read as an empty list and is overwritten
\* by the next logger.error.
C29_CorruptStoreSticks ==
  [][ /\ (lgStore.kind \in {"other", "invalid"}
            /\ Len(lgLogged') > Len(lgLogged) /\ lgErrorOn) =>
           (lgStore' = lgStore /\ ~lgLast'.threw /\ lgPersisted' = lgPersisted)
      /\ (lgStore.kind \in {"empty", "invalid"} /\ lgLast'.op = "get") =>
           lgGot' = [isList |-> TRUE, items |-> << >>]
      /\ (lgStore.kind \in {"other", "invalid"} /\ lgStore' # lgStore) =>
           lgLast'.op = "clear"
      /\ (lgStore.kind = "empty" /\ Len(lgLogged') > Len(lgLogged) /\ lgErrorOn
            /\ lgPersisted' # lgPersisted) =>
           lgStore'.kind = "array" ]_allVars

\* the store held text that is not JSON, two errors were logged and nothing
\* was persisted
C29_Witness ==
  /\ lgStore.kind = "invalid"
  /\ Len(lgLogged) = 2
  /\ lgPersisted = << >>
  /\ lgErrorOn
  /\ lgDrops = 0
  /\ lgLast.op = "error"


(***************************************************************************)
(* Mobile optimisation agent (agent/mobile-optimizer-agent.mjs,            *)
(* agent/validator.mjs, agent/auto-fixer.mjs).                             *)
(*                                                                         *)
(* run is an async function; an action is one stretch of it between two    *)
(* awaits.  The validators read the project's files, so what a round finds *)
(* is an input of that round.                                              *)
(***************************************************************************)

\* largest maxIterations explored that a caller passes explicitly
MaxIterationsGiven == 2

\* mobile-optimizer-agent.mjs line 23
DefaultMaxIterations == 10

\* mobile-optimizer-agent.mjs line 116: slice(0, 5)
FixesPerIteration == 5

\* config objects given to the constructor: maxIterations absent or given
Configs ==
  { [hasMaxIterations |-> h, maxIterations |-> n, autoFix |-> a,
     quickMode |-> q] :
      h \in BOOLEAN, n \in 0..MaxIterationsGiven, a \in BOOLEAN,
      q \in BOOLEAN }
  \ { [hasMaxIterations |-> FALSE, maxIterations |-> n, autoFix |-> a,
       quickMode |-> q] :
        n \in 1..MaxIterationsGiven, a \in BOOLEAN, q \in BOOLEAN }

\* this.config.maxIterations (22-30): the default replaces a missing or
\* falsy value, and the spread of config that follows puts a given value
\* back, 0 included
EffectiveMaxIterations(config) ==
  IF config.hasMaxIterations THEN config.maxIterations
  ELSE DefaultMaxIterations

\* Issues the validators can report, with the fields the agent reads.
IssueCatalog ==
  [ antialias |->
      [id |-> "webgl-antialias-mobile", severity |-> "critical",
       hasFix |-> TRUE, type |-> "code", risk |-> "safe",
       file |-> "makeRenderer.ts"],
    mobileDetection |->
      [id |-> "missing-mobile-detection", severity |-> "critical",
       hasFix |-> TRUE, type |-> "code", risk |-> "safe",
       file |-> "PerfFlags.ts"],
    lowMobileFps |->
      [id |-> "low-mobile-fps", severity |-> "critical",
       hasFix |-> TRUE, type |-> "code", risk |-> "moderate",
       file |-> "Performance"],
    mediaQueries |->
      [id |-> "missing-media-queries", severity |-> "high",
       hasFix |-> FALSE, type |-> "none", risk |-> "none",
       file |-> "index.css"],
    memoryDetection |->
      [id |-> "missing-memory-detection", severity |-> "medium",
       hasFix |-> TRUE, type |-> "code", risk |-> "safe",
       file |-> "PerfFlags.ts"] ]

IssueNames == DOMAIN IssueCatalog

\* the order in which the validators report them
IssueOrder ==
  << "antialias", "mobileDetection", "lowMobileFps", "mediaQueries",
     "memoryDetection" >>

\* issues.filter(i => i.severity === severity), in order
WithSeverity(issues, severity) ==
  SelectSeq(IssueOrder,
            LAMBDA n : n \in issues /\ IssueCatalog[n].severity = severity)

\* validator.mjs lines 53-58 and 104-105
ValidatorPassed_NoIssues(issues) == issues = {}

ValidatorPassed(issues) == Len(WithSeverity(issues, "critical")) = 0

\* MobileValidator.validate / quickValidate: allIssues are the issues of
\* the validators that did not throw
Validate(issues) ==
  [ passed |-> ValidatorPassed(issues),
    issues |-> issues,
    total |-> Cardinality(issues),
    critical |-> Len(WithSeverity(issues, "critical")) ]

\* mobile-optimizer-agent.mjs line 95
Actionable(validation) ==
  WithSeverity(validation.issues, "critical")
    \o WithSeverity(validation.issues, "high")

\* Array.prototype.slice(0, n)
Slice(list, n) == SubSeq(list, 1, IF Len(list) < n THEN Len(list) ELSE n)

\* auto-fixer.mjs lines 34-38
Fixable_AnyRisk(name) ==
  /\ IssueCatalog[name].hasFix
  /\ IssueCatalog[name].severity \in {"critical", "high"}

Fixable(name) ==
  /\ IssueCatalog[name].hasFix
  /\ IssueCatalog[name].risk = "safe"
  /\ IssueCatalog[name].severity \in {"critical", "high"}

\* ids with an entry in applyCodeFix's table (98-107); every other id goes
\* to genericCodeFix, which never writes and returns false
KnownFixers == {"webgl-antialias-mobile"}

\* applyFix (75-94) on one issue.  createBackup swallows a failed copy
\* (304-314); a fixer returns true after it wrote the file and false
\* otherwise.
ApplyFix(name, backupOk, fixerWrites) ==
  LET issue == IssueCatalog[name]
      event(op) == [op |-> op, issue |-> name, file |-> issue.file]
      fixed == issue.id \in KnownFixers /\ fixerWrites
  IN IF issue.type # "code"
     THEN [fixed |-> FALSE, events |-> {}, unbacked |-> {}]
     ELSE [ fixed |-> fixed,
            events |->
              (IF backupOk THEN {event("backup")} ELSE {})
                \cup (IF fixed THEN {event("write"), event("log")} ELSE {}),
            unbacked |-> IF fixed /\ ~backupOk THEN {issue.file} ELSE {} ]

\* applyFixes (29-73) on a list of issues
ApplyFixes(issues, backupOk, fixerWrites) ==
  LET fixable == {issues[i] : i \in 1..Len(issues)} \cap
                   {n \in IssueNames : Fixable(n)}
      done(n) == ApplyFix(n, backupOk, fixerWrites)
      applied == Cardinality({n \in fixable : done(n).fixed})
  IN [ applied |-> applied,
       failed |-> Cardinality(fixable) - applied,
       events |-> UNION {done(n).events : n \in fixable},
       unbacked |-> UNION {done(n).unbacked : n \in fixable} ]

\* the ways out of run, in program order
ExitPaths ==
  {"success", "noActionable", "noFixes", "autoFixOff", "maxIterations"}

\* the status given to generateReport on each way out (85, 101, 126, 142,
\* 159)
ExitReport_MaxAsManual(path) ==
  CASE path = "success" -> "SUCCESS"
    [] path = "noActionable" -> "PARTIAL_SUCCESS"
    [] path = "noFixes" -> "NEEDS_MANUAL_FIX"
    [] path = "autoFixOff" -> "AUTO_FIX_DISABLED"
    [] path = "maxIterations" -> "NEEDS_MANUAL_FIX"

ExitReport(path) ==
  CASE path = "success" -> "SUCCESS"
    [] path = "noActionable" -> "PARTIAL_SUCCESS"
    [] path = "noFixes" -> "NEEDS_MANUAL_FIX"
    [] path = "autoFixOff" -> "AUTO_FIX_DISABLED"
    [] path = "maxIterations" -> "MAX_ITERATIONS"

\* the object returned on each way out (86-91, 102-108, 127-133, 143-149,
\* 160-166)
ExitResult(path, iteration) ==
  [ success |-> (path = "success"),
    reason |->
      CASE path = "success" -> "none"
        [] path = "noActionable" -> "No actionable issues"
        [] path = "noFixes" -> "No auto-fixes available"
        [] path = "autoFixOff" -> "Auto-fix disabled"
        [] path = "maxIterations" -> "Max iterations reached",
    iterations |-> iteration,
    hasResult |-> (path # "maxIterations") ]

\* await this.generateReport(status) is reached on the given way out
LeaveBy(path) ==
  /\ agReports' = Append(agReports, ExitReport(path))
  /\ agPending' = ExitResult(path, agIteration)
  /\ agPc' = "reporting"

notAgent ==
  << vars, tierVars, simplifyVars, sceneVars, loggerVars, governorVars,
     shadowVars >>

AgentInit ==
  /\ agConfig \in Configs
  /\ agPc = "idle"
  /\ agIteration = 0
  /\ agRounds = 0
  /\ agValidation = NoValidation
  /\ agFixResult = NoFixResult
  /\ agReports = << >>
  /\ agPending = NoReturn
  /\ agReturn = NoReturn
  /\ fxEvents = {}
  /\ fxUnbacked = {}
  /\ LoggerIdle
  /\ GovernorIdle
  /\ ShadowIdle
  /\ RendererIdle
  /\ TierIdle
  /\ SimplifyIdle
  /\ SceneIdle

\* agent.run() is called (39-51)
StartRun ==
  /\ agPc = "idle"
  /\ agPc' = "loop"
  /\ UNCHANGED << agConfig, agIteration, agRounds, agValidation, agFixResult,
                  agReports, agPending, agReturn, fxEvents, fxUnbacked >>
  /\ UNCHANGED notAgent

\* the loop test holds: the round starts and the validators are called
\* (53-63)
BeginRound ==
  /\ agPc = "loop"
  /\ agIteration < EffectiveMaxIterations(agConfig)
  /\ agIteration' = agIteration + 1
  /\ agPc' = "validating"
  /\ UNCHANGED << agConfig, agRounds, agValidation, agFixResult, agReports,
                  agPending, agReturn, fxEvents, fxUnbacked >>
  /\ UNCHANGED notAgent

\* the validation returns; run decides what to do with it (65-118, 140-150)
ValidationReturns(issues) ==
  /\ agPc = "validating"
  /\ LET validation == Validate(issues)
         criticalIssues == WithSeverity(validation.issues, "critical")
     IN /\ agValidation' = validation
        /\ agRounds' = agRounds + 1
        /\ IF validation.passed /\ Len(criticalIssues) = 0
           THEN LeaveBy("success")
           ELSE IF Len(Actionable(validation)) = 0
           THEN LeaveBy("noActionable")
           ELSE IF agConfig.autoFix
           THEN /\ agPc' = "fixing"
                /\ UNCHANGED << agReports, agPending >>
           ELSE LeaveBy("autoFixOff")
  /\ UNCHANGED << agConfig, agIteration, agFixResult, agReturn, fxEvents,
                  fxUnbacked >>
  /\ UNCHANGED notAgent

\* applyFixes returns (118-138)
FixesReturn(backupOk, fixerWrites) ==
  /\ agPc = "fixing"
  /\ LET issuesToFix == Slice(Actionable(agValidation), FixesPerIteration)
         fixResult == ApplyFixes(issuesToFix, backupOk, fixerWrites)
     IN /\ agFixResult' =
             [applied |-> fixResult.applied, failed |-> fixResult.failed]
        /\ fxEvents' = fxEvents \cup fixResult.events
        /\ fxUnbacked' = fxUnbacked \cup fixResult.unbacked
        /\ IF fixResult.applied = 0
           THEN LeaveBy("noFixes")
           ELSE /\ agPc' = "sleeping"
                /\ UNCHANGED << agReports, agPending >>
  /\ UNCHANGED << agConfig, agIteration, agRounds, agValidation, agReturn >>
  /\ UNCHANGED notAgent

\* the two seconds of sleep are over (138)
SleepDone ==
  /\ agPc = "sleeping"
  /\ agPc' = "loop"
  /\ UNCHANGED << agConfig, agIteration, agRounds, agValidation, agFixResult,
                  agReports, agPending, agReturn, fxEvents, fxUnbacked >>
  /\ UNCHANGED notAgent

\* the loop test fails (53, 153-159)
LoopExit ==
  /\ agPc = "loop"
  /\ ~(agIteration < EffectiveMaxIterations(agConfig))
  /\ LeaveBy("maxIterations")
  /\ UNCHANGED << agConfig, agIteration, agRounds, agValidation, agFixResult,
                  agReturn, fxEvents, fxUnbacked >>
  /\ UNCHANGED notAgent

\* generateReport wrote its files; run returns
ReportWritten ==
  /\ agPc = "reporting"
  /\ agPc' = "returned"
  /\ agReturn' = agPending
  /\ UNCHANGED << agConfig, agIteration, agRounds, agValidation, agFixResult,
                  agReports, agPending, fxEvents, fxUnbacked >>
  /\ UNCHANGED notAgent

\* one of generateReport's fs.writeFile calls rejects (176, 180, 189): the
\* await in run throws and run rejects
ReportFails ==
  /\ agPc = "reporting"
  /\ agPc' = "rejected"
  /\ UNCHANGED << agConfig, agIteration, agRounds, agValidation, agFixResult,
                  agReports, agPending, agReturn, fxEvents, fxUnbacked >>
  /\ UNCHANGED notAgent

AgentNext ==
  \/ StartRun
  \/ BeginRound
  \/ \E issues \in SUBSET IssueNames : ValidationReturns(issues)
  \/ \E backupOk \in BOOLEAN, fixerWrites \in BOOLEAN :
       FixesReturn(backupOk, fixerWrites)
  \/ SleepDone
  \/ LoopExit
  \/ ReportWritten
  \/ ReportFails

AgentSpec == AgentInit /\ [][AgentNext]_allVars

\* every step of run that is enabled is taken in the end: the validators,
\* the fixer, the timer and the file system answer
AgentFairSpec ==
  /\ AgentSpec
  /\ WF_allVars(StartRun)
  /\ WF_allVars(BeginRound)
  /\ WF_allVars(\E issues \in SUBSET IssueNames : ValidationReturns(issues))
  /\ WF_allVars(\E backupOk \in BOOLEAN, fixerWrites \in BOOLEAN :
                  FixesReturn(backupOk, fixerWrites))
  /\ WF_allVars(SleepDone)
  /\ WF_allVars(LoopExit)
  /\ WF_allVars(ReportWritten \/ ReportFails)

\* C23: run always terminates, given that every step it awaits answers: it
\* performs at most maxIterations validation rounds and returns either
\* success or a failure with a reason, with an iteration count that is
\* never above maxIterations.
C23_AlwaysReturns ==
  /\ <>(agPc = "returned")
  /\ [](agRounds <= EffectiveMaxIterations(agConfig))
  /\ [](agPc = "returned" =>
          /\ agReturn.iterations <= EffectiveMaxIterations(agConfig)
          /\ (agReturn.success \/ agReturn.reason # "none"))

\* C24: every modification the auto-fixer makes to a file is preceded by a
\* successfully created backup of that file: no file is written in an
\* applyFix whose backup is missing.
C24_BackupBeforeWrite ==
  \A e \in fxEvents : e.op = "write" => e.file \notin fxUnbacked

\* C25: the auto-fixer makes a backup, writes a file or logs a change only
\* for an issue whose suggested fix has risk 'safe' and whose severity is
\* critical or high; an issue with no suggested fix or with a fix of another
\* risk causes none of these.
C25_OnlySafeFixes ==
  \A e \in fxEvents :
    /\ IssueCatalog[e.issue].hasFix
    /\ IssueCatalog[e.issue].risk = "safe"
    /\ IssueCatalog[e.issue].severity \in {"critical", "high"}

\* the validators reported every issue of the catalog, among them a fix of
\* moderate risk, an issue without a fix and a safe fix of medium severity;
\* the antialias fix was backed up, written and logged
C25_Witness ==
  /\ agPc = "sleeping"
  /\ agValidation.issues = IssueNames
  /\ [op |-> "write", issue |-> "antialias", file |-> "makeRenderer.ts"]
       \in fxEvents
  /\ [op |-> "backup", issue |-> "mobileDetection", file |-> "PerfFlags.ts"]
       \in fxEvents
  /\ agFixResult.applied = 1

\* C27: whenever run has returned, generateReport has been called exactly
\* once, with the status that goes with the object returned: SUCCESS with
\* success = true, and PARTIAL_SUCCESS, NEEDS_MANUAL_FIX, AUTO_FIX_DISABLED
\* or MAX_ITERATIONS with success = false and the matching reason.
C27_OneMatchingReport ==
  /\ Len(agReports) <= 1
  /\ agPc = "returned" =>
       /\ Len(agReports) = 1
       /\ agReturn.success <=> agReports[1] = "SUCCESS"
       /\ agReturn.success => agReturn.reason = "none"
       /\ agReturn.reason = "No actionable issues"
            <=> agReports[1] = "PARTIAL_SUCCESS"
       /\ agReturn.reason = "No auto-fixes available"
            <=> agReports[1] = "NEEDS_MANUAL_FIX"
       /\ agReturn.reason = "Auto-fix disabled"
            <=> agReports[1] = "AUTO_FIX_DISABLED"
       /\ agReturn.reason = "Max iterations reached"
            <=> agReports[1] = "MAX_ITERATIONS"

\* run returned after two rounds of fixes because maxIterations was reached
C27_Witness ==
  /\ agPc = "returned"
  /\ agRounds = 2
  /\ agReturn.reason = "Max iterations reached"
  /\ agReports = << "MAX_ITERATIONS" >>
  /\ ~agReturn.hasResult

\* C28: the 'No actionable issues' (PARTIAL_SUCCESS) way out of run is
\* never taken: a validation has passed exactly when it holds no critical
\* issue, so whenever the success check fails the actionable list holds a
\* critical issue.
C28_PartialSuccessUnreachable ==
  /\ \A i \in 1..Len(agReports) : agReports[i] # "PARTIAL_SUCCESS"
  /\ agPending.reason # "No actionable issues"
  /\ agReturn.reason # "No actionable issues"
  /\ agRounds > 0 =>
       /\ agValidation.passed <=>
            \A n \in agValidation.issues :
              IssueCatalog[n].severity # "critical"
       /\ ~agValidation.passed =>
            \E i \in 1..Len(Actionable(agValidation)) :
              IssueCatalog[Actionable(agValidation)[i]].severity = "critical"

\* a validation that found a critical issue next to a medium one failed the
\* success check and went on to the fixer
C28_Witness ==
  /\ agPc = "fixing"
  /\ ~agValidation.passed
  /\ agValidation.issues = {"lowMobileFps", "memoryDetection"}
  /\ Actionable(agValidation) = << "lowMobileFps" >>

(* ====================================================================== *)
(* The frame performance governor.  The repository's sources here hold    *)
(* its configuration only (agent/knowledge-base.mjs, fpsTargets           *)
(* .frameGovernor); the governor's own module is not among them, so its   *)
(* behaviour is modelled from section 4.7 of the specification: a         *)
(* rolling window of frame samples, a frame janky when its duration       *)
(* exceeds the threshold, one stage advanced when the janky count of the  *)
(* window exceeds the tolerance.                                          *)
(* ====================================================================== *)

\* frameGovernor.jankThreshold (ms) and frameGovernor.jankTolerance (frames)
JankThreshold == 50

JankTolerance == 8

\* frameGovernor.degradationStages, in order
DegradationStages ==
  << "Disable bloom", "Reduce texture quality", "Simplify geometry" >>

LastStage == Len(DegradationStages)

\* the size of the rolling window: the ten frames of the specification's
\* jank scenario
WindowSize == 10

\* the tiers a session can run under
GovernorTiers == { "constrained", "unconstrained" }

\* frame durations (ms): a fast frame, one at the threshold, one above it
FrameDurations == { 16, 50, 51 }

\* "active only on constrained tiers"
GovernorActive(tier) == tier = "constrained"

\* "a frame is janky if its duration exceeds a fixed threshold"
IsJanky(duration) == duration > JankThreshold

JankyCount(window) ==
  Cardinality({ i \in 1..Len(window) : IsJanky(window[i]) })

\* the rolling window keeps the most recent WindowSize samples
PushSample(window, duration) ==
  IF Len(window) >= WindowSize
  THEN Append(Tail(window), duration)
  ELSE Append(window, duration)

Degrades(stage, window) ==
  JankyCount(window) > JankTolerance /\ stage < LastStage

\* a governor that also steps back when a full window holds no janky frame
StageAfter_Recovers(stage, window) ==
  IF Degrades(stage, window) THEN stage + 1
  ELSE IF Len(window) = WindowSize /\ JankyCount(window) = 0 /\ stage > 0
  THEN stage - 1
  ELSE stage

\* "when the count of janky frames within the current window exceeds a
\* tolerance count, the governor advances one degradation stage"
StageAfter(stage, window) ==
  IF Degrades(stage, window) THEN stage + 1 ELSE stage

notGovernor ==
  << vars, tierVars, simplifyVars, sceneVars, loggerVars, agentVars,
     shadowVars >>

GovernorInit ==
  /\ gvTier \in GovernorTiers
  /\ gvStage = 0
  /\ gvWindow = << >>
  /\ LoggerIdle
  /\ AgentIdle
  /\ ShadowIdle
  /\ RendererIdle
  /\ TierIdle
  /\ SimplifyIdle
  /\ SceneIdle

\* The end of a frame: the sample enters the window and the stage is
\* re-evaluated.  The window starts afresh after a transition, so that ten
\* consecutive janky frames advance exactly one stage.
FrameEnd(duration) ==
  /\ IF GovernorActive(gvTier)
     THEN LET window == PushSample(gvWindow, duration)
              stage == StageAfter(gvStage, window)
          IN  /\ gvStage' = stage
              /\ gvWindow' = IF stage # gvStage THEN << >> ELSE window
     ELSE UNCHANGED << gvStage, gvWindow >>
  /\ UNCHANGED gvTier
  /\ UNCHANGED notGovernor

GovernorNext == \E duration \in FrameDurations : FrameEnd(duration)

GovernorSpec == GovernorInit /\ [][GovernorNext]_allVars

\* C21: the governor's degradation stage index never decreases during a
\* session: no frame, whatever its duration, takes the stage below the one
\* already applied.
C21_StageNeverDecreases == [][gvStage' >= gvStage]_allVars

\* a stage has been applied and a whole window of frames without jank has
\* followed it
C21_Witness ==
  /\ GovernorActive(gvTier)
  /\ gvStage >= 1
  /\ Len(gvWindow) = WindowSize
  /\ JankyCount(gvWindow) = 0

(* ====================================================================== *)
(* Shadow frustum fitting, as TECHNICAL_ANALYSIS.md section 7.2 gives it  *)
(* for ShadowFit.tsx (fitShadowFrustum).  Lengths are in half units, so   *)
(* that the default near plane of 0.5 is the integer 1.                   *)
(* ====================================================================== *)

MaxFrames == 4

\* the coordinate of an empty Box3: min is +Infinity, max is -Infinity
Infinity == 100000

\* scene.children, each with its world-space bounding box
SceneChildren == { "ground", "plaza", "tower", "tree" }

BoxOf(obj) ==
  CASE obj = "ground" -> [min |-> << -40, 0, -40 >>, max |-> << 40, 0, 40 >>]
    [] obj = "plaza"  -> [min |-> << -8, 0, -8 >>, max |-> << 8, 1, 8 >>]
    [] obj = "tower"  -> [min |-> << 10, 0, 10 >>, max |-> << 14, 60, 14 >>]
    [] obj = "tree"   -> [min |-> << -20, 0, 6 >>, max |-> << -18, 9, 8 >>]

\* the translations light.matrixWorldInverse applies
Lights == { << 0, 0, 0 >>, << 2, 0, 4 >>, << -30, 5, -50 >> }

SetMin(S) == CHOOSE x \in S : \A y \in S : x <= y

SetMax(S) == CHOOSE x \in S : \A y \in S : x >= y

\* new Box3()
EmptyBox ==
  [min |-> << Infinity, Infinity, Infinity >>,
   max |-> << -Infinity, -Infinity, -Infinity >>]

\* Box3.isEmpty
IsEmptyBox(box) == \E i \in 1..3 : box.max[i] < box.min[i]

\* const bbox = new Box3(); visibleObjects.forEach(obj =>
\* bbox.expandByObject(obj)): each object widens the box that started empty
BoundingBox(visibleObjects) ==
  [min |-> [i \in 1..3 |->
             SetMin({ EmptyBox.min[i] }
                    \cup { BoxOf(obj).min[i] : obj \in visibleObjects })],
   max |-> [i \in 1..3 |->
             SetMax({ EmptyBox.max[i] }
                    \cup { BoxOf(obj).max[i] : obj \in visibleObjects })]]

\* bbox.applyMatrix4(light.matrixWorldInverse); Box3.applyMatrix4 returns an
\* empty box as it is
ApplyMatrix4(box, light) ==
  IF IsEmptyBox(box) THEN box
  ELSE [min |-> [i \in 1..3 |-> box.min[i] - light[i]],
        max |-> [i \in 1..3 |-> box.max[i] - light[i]]]

\* steps 2 to 4: the six bounds of the orthographic shadow camera
FitShadowFrustum(light, visibleObjects) ==
  LET lightSpaceBox == ApplyMatrix4(BoundingBox(visibleObjects), light)
  IN  [left   |-> lightSpaceBox.min[1],
       right  |-> lightSpaceBox.max[1],
       top    |-> lightSpaceBox.max[2],
       bottom |-> lightSpaceBox.min[2],
       near   |-> lightSpaceBox.min[3],
       far    |-> lightSpaceBox.max[3]]

\* a frustum without volume
Degenerate(cam) ==
  \/ cam.right <= cam.left
  \/ cam.top <= cam.bottom
  \/ cam.far <= cam.near

notShadow ==
  << vars, tierVars, simplifyVars, sceneVars, loggerVars, agentVars,
     governorVars >>

ShadowInit ==
  /\ shLight \in Lights
  /\ shVisible = {}
  /\ shCam = InitialFrustum
  /\ shUpdates = 0
  /\ shFrames = 0
  /\ LoggerIdle
  /\ AgentIdle
  /\ GovernorIdle
  /\ RendererIdle
  /\ TierIdle
  /\ SimplifyIdle
  /\ SceneIdle

\* One call of fitShadowFrustum; visibleObjects are the children the camera
\* frustum intersects in this frame.
Fit(visibleObjects) ==
  /\ shFrames < MaxFrames
  /\ shVisible' = visibleObjects
  /\ shCam' = FitShadowFrustum(shLight, visibleObjects)
  /\ shUpdates' = shUpdates + 1
  /\ shFrames' = shFrames + 1
  /\ UNCHANGED shLight
  /\ UNCHANGED notShadow

ShadowNext == \E visibleObjects \in SUBSET SceneChildren : Fit(visibleObjects)

ShadowSpec == ShadowInit /\ [][ShadowNext]_allVars

\* C22: in a frame in which no object intersects the camera frustum, the
\* fitter leaves the six shadow bounds as the previous frame left them, and
\* they are not a degenerate or empty box.
C22_EmptyFrameKeepsBounds ==
  [][(shFrames' = shFrames + 1 /\ shVisible' = {})
       => (shCam' = shCam /\ ~Degenerate(shCam'))]_allVars

=============================================================================
